---- MODULE Spec2Model ----
(***************************************************************************)
(* CSV -> IndexedDB importer (src/src/csvImporter.ts) and the virtualized  *)
(* table's windowed row cache (src/src/components/VirtualTable.tsx).       *)
(*                                                                         *)
(* The two tables of the Dexie database (db.rows, db.meta) are dbRows and  *)
(* dbMeta.  SpecCache and SpecEdit drive the VirtualTable component        *)
(* against a populated store; SpecImport and SpecProgress drive one        *)
(* importCsv call, without and with a progress callback.                   *)
(***************************************************************************)
EXTENDS Integers, Sequences, FiniteSets, TLC

\* ---------------------------------------------------------------- CONFIG
\* VirtualTable.tsx CONFIG
FETCH_PREFETCH == 10
CACHE_KEEP_BEFORE == 50
CACHE_KEEP_AFTER == 50
MAX_CACHED_ROWS == 100

\* ---------------------------------------------------------------- bounds
\* Rows of the large and of the small dataset the table is shown.
BigRows == 112
SmallRows == 3
\* Fetches issued, dataset changes, edits begun and commits started in a run.
MaxFetches == 2
MaxResets == 1
MaxEdits == 1
MaxCommits == 2
\* The values typed into a cell (cells hold 0 when imported).
EditValues == {0, 1}
\* The value of every cell of a dataset imported while the table is shown.
ImportedValue == 2
\* Data rows of the imported file, batchSize, rows in the store beforehand.
MaxFileRows == 3
MaxBatch == 2
MaxOldRows == 1

VARIABLES
  dbRows,      \* db.rows in id order: sequence of [id, data]
  dbMeta,      \* db.meta "current": [columns, rowCount], or NoMeta
  nextId,      \* the ++id auto-increment counter of db.rows
  \* ---- VirtualTable
  columns,     \* prop columns
  rowCount,    \* prop rowCount
  viewport,    \* <<first, last>> of virtualItems, <<>> when there are none
  cache,       \* state cache: index -> [id, data]
  requestId,   \* requestIdRef.current
  fetches,     \* the async fetches issued so far, in order
  controller,  \* fetchRef.current.controller: index into fetches, 0 = null
  editing,     \* state editing: [rowIdx, col] or NoEdit
  editValue,   \* state editValue
  commits,     \* the commitEdit calls started so far, in order
  errors,      \* number of onError calls
  cellEdits,   \* onCellEdit calls: sequence of <<rowId, column, value>>
  resets,      \* dataset changes so far
  edits,       \* beginEdit calls so far
  \* ---- importCsv
  call,        \* the arguments and environment of the importCsv call
  signal,      \* options.signal.aborted
  att,         \* the attemptParse calls: 1 main thread, 2 worker
  outcome,     \* how the importCsv promise settled, "pending" before
  progress     \* the onProgress calls made so far, in order

cacheVars == <<columns, rowCount, viewport, cache, requestId, fetches,
               controller, editing, editValue, commits, errors, cellEdits,
               resets, edits>>
dbVars == <<dbRows, dbMeta, nextId>>
importVars == <<call, signal, att, outcome, progress>>
vars == <<dbVars, cacheVars, importVars>>

Max(a, b) == IF a >= b THEN a ELSE b
Min(a, b) == IF a <= b THEN a ELSE b
Abs(a) == IF a >= 0 THEN a ELSE -a

NoMeta == [columns |-> <<>>, rowCount |-> -1]
NoEdit == [rowIdx |-> -1, col |-> ""]
Header == <<"a", "b">>
ColSet(cols) == {cols[i] : i \in 1..Len(cols)}

\* A table of n rows imported with ids first..first+n-1, every cell v.
Dataset(first, n, v) ==
  [i \in 1..n |-> [id |-> first + i - 1, data |-> [c \in ColSet(Header) |-> v]]]
\* The table the store holds at first: every cell 0.
Table(first, n) == Dataset(first, n, 0)

\* ------------------------------------------------------------ the cache
\* The viewports the virtualizer may report for a table of n rows.
ViewFirsts == {0, 100}
ViewSpans == {0, 95}
Viewports(n) ==
  {<<f, f + s>> : f \in {x \in ViewFirsts : x <= n - 1},
                  s \in {y \in ViewSpans : TRUE}} \cap
  {<<f, l>> : f \in 0..(n - 1), l \in 0..(n - 1)}

StartIndex(vp) == Max(0, vp[1] - FETCH_PREFETCH)
EndIndex(vp, rc) == Min(rc - 1, vp[2] + FETCH_PREFETCH)
Missing(c, s, e) == \E i \in s..e : i \notin DOMAIN c

AbortController(fs, ctl) ==
  IF ctl = 0 THEN fs ELSE [fs EXCEPT ![ctl].aborted = TRUE]
\* ghost: every fetch still in flight is superseded by a new fetch or a reset
Supersede(fs) ==
  [i \in DOMAIN fs |-> IF fs[i].phase = "done" THEN fs[i]
                       ELSE [fs[i] EXCEPT !.superseded = TRUE]]

NewFetch(token, s, e) ==
  [token |-> token, start |-> s, end |-> e, aborted |-> FALSE,
   phase |-> "query", failed |-> FALSE, rows |-> <<>>, outcome |-> "",
   superseded |-> FALSE]

FetchEffectKeepsPrevious(cur, cols, rc, vp, rid, fs, ctl) ==
  IF rc = 0 \/ Len(cols) = 0 \/ vp = <<>>
    THEN requestId' = rid /\ fetches' = fs /\ controller' = ctl
    ELSE IF ~Missing(cur, StartIndex(vp), EndIndex(vp, rc))
    THEN requestId' = rid /\ fetches' = fs /\ controller' = ctl
    ELSE /\ requestId' = rid + 1
         /\ fetches' = Append(fs, NewFetch(rid + 1, StartIndex(vp),
                                           EndIndex(vp, rc)))
         /\ controller' = Len(fs) + 1
\* The fetch effect, run with cacheRef.current = cur, the request id rid and
\* the fetches fs (fetchRef.current.controller = ctl) it finds.
FetchEffect(cur, cols, rc, vp, rid, fs, ctl) ==
  IF rc = 0 \/ Len(cols) = 0 \/ vp = <<>>
    THEN requestId' = rid /\ fetches' = fs /\ controller' = ctl
    ELSE IF ~Missing(cur, StartIndex(vp), EndIndex(vp, rc))
    THEN requestId' = rid /\ fetches' = fs /\ controller' = ctl
    ELSE /\ requestId' = rid + 1
         /\ fetches' = Append(Supersede(AbortController(fs, ctl)),
                              NewFetch(rid + 1, StartIndex(vp), EndIndex(vp, rc)))
         /\ controller' = Len(fs) + 1

\* setCache updater of the fetch: merge, then prune.
MergeRowsOneOff(prev, rows, s) ==
  [k \in DOMAIN prev \cup {s + i : i \in 1..Len(rows)} |->
     IF k - s \in 1..Len(rows) THEN rows[k - s] ELSE prev[k]]
MergeRows(prev, rows, s) ==
  [k \in DOMAIN prev \cup {s + i - 1 : i \in 1..Len(rows)} |->
     IF k - s + 1 \in 1..Len(rows) THEN rows[k - s + 1] ELSE prev[k]]

Restrict(c, keys) == [k \in keys |-> c[k]]

\* First pass: drop every key outside [keepMin, keepMax].
FirstPassKeepsAll(c, keepMin, keepMax) == c
FirstPass(c, keepMin, keepMax) ==
  Restrict(c, {k \in DOMAIN c : ~(k < keepMin \/ k > keepMax)})

Dist(k, s, e) == Min(Abs(k - s), Abs(k - e))

\* Second pass: walking the keys farthest first, delete those outside
\* [keepMin, keepMax] until `excess` of them are gone.
RECURSIVE RemoveFarthest(_, _, _, _, _, _)
RemoveFarthest(c, excess, keepMin, keepMax, s, e) ==
  LET outside == {k \in DOMAIN c : k < keepMin \/ k > keepMax} IN
  IF excess <= 0 \/ outside = {} THEN c
  ELSE LET far == CHOOSE k \in outside :
                    \A j \in outside : Dist(k, s, e) >= Dist(j, s, e)
       IN RemoveFarthest(Restrict(c, DOMAIN c \ {far}), excess - 1,
                         keepMin, keepMax, s, e)

SecondPass(c, keepMin, keepMax, s, e) ==
  IF Cardinality(DOMAIN c) > MAX_CACHED_ROWS
    THEN RemoveFarthest(c, Cardinality(DOMAIN c) - MAX_CACHED_ROWS,
                        keepMin, keepMax, s, e)
    ELSE c

KeepMin(s) == Max(0, s - CACHE_KEEP_BEFORE)
KeepMax(e) == e + CACHE_KEEP_AFTER

Prune(c, s, e) ==
  SecondPass(FirstPass(c, KeepMin(s), KeepMax(e)), KeepMin(s), KeepMax(e), s, e)

MergeAndPrune(prev, rows, s, e) == Prune(MergeRows(prev, rows, s), s, e)

\* db.rows.orderBy("id").offset(s).limit(e - s + 1).toArray()
RangedQuery(s, e) ==
  SubSeq(dbRows, s + 1, Min(Len(dbRows), e + 1))

\* controller.signal.aborted || requestId !== requestIdRef.current
IsStaleNewerOnly(f) == f.token > requestId
IsStale(f) == f.aborted \/ f.token # requestId

\* A store holding a completed import of n rows.
InitDb(n) ==
  /\ dbRows = Table(1, n)
  /\ nextId = n + 1
  /\ dbMeta = [columns |-> Header, rowCount |-> n]

\* The table after mount: the reset effect has run once (requestId 0 -> 1)
\* and the virtualizer has measured nothing yet.
InitCache ==
  /\ columns = dbMeta.columns
  /\ rowCount = dbMeta.rowCount
  /\ viewport = <<>>
  /\ cache = <<>>
  /\ requestId = 1
  /\ fetches = <<>>
  /\ controller = 0
  /\ editing = NoEdit
  /\ editValue = 0
  /\ commits = <<>>
  /\ errors = 0
  /\ cellEdits = <<>>
  /\ resets = 0
  /\ edits = 0

\* virtualItems change (scroll, resize): the fetch effect runs.
SetViewport(vp) ==
  /\ vp # viewport
  /\ \/ Len(fetches) < MaxFetches
     \/ ~Missing(cache, StartIndex(vp), EndIndex(vp, rowCount))
  /\ viewport' = vp
  /\ FetchEffect(cache, columns, rowCount, vp, requestId, fetches, controller)
  /\ UNCHANGED <<importVars, dbVars, columns, rowCount, cache, editing, editValue,
                 commits, errors, cellEdits, resets, edits>>

\* A new import replaced the table and its metadata and the props follow:
\* the reset effect runs, then the fetch effect of the same commit, which
\* still reads the cache of the render (cacheRef.current).
ChangeDataset(n, vp) ==
  /\ resets < MaxResets
  /\ Len(fetches) < MaxFetches
  /\ dbRows' = Dataset(nextId, n, ImportedValue)
  /\ nextId' = nextId + n
  /\ dbMeta' = [columns |-> Header, rowCount |-> n]
  /\ columns' = Header
  /\ rowCount' = n
  /\ viewport' = vp
  /\ cache' = <<>>
  /\ editing' = NoEdit
  /\ FetchEffect(cache, Header, n, vp, requestId + 1,
                 Supersede(AbortController(fetches, controller)), controller)
  /\ resets' = resets + 1
  /\ UNCHANGED <<importVars, editValue, commits, errors, cellEdits, edits>>

\* The store executes the ranged query of fetch i.
FetchRead(i) ==
  /\ fetches[i].phase = "query"
  /\ fetches' = [fetches EXCEPT ![i].phase = "read",
                   ![i].rows = RangedQuery(fetches[i].start, fetches[i].end)]
  /\ UNCHANGED <<importVars, dbVars, columns, rowCount, viewport, cache, requestId,
                 controller, editing, editValue, commits, errors, cellEdits,
                 resets, edits>>

\* The ranged query of fetch i fails.
FetchQueryFail(i) ==
  /\ fetches[i].phase = "query"
  /\ fetches' = [fetches EXCEPT ![i].phase = "read", ![i].failed = TRUE]
  /\ UNCHANGED <<importVars, dbVars, columns, rowCount, viewport, cache, requestId,
                 controller, editing, editValue, commits, errors, cellEdits,
                 resets, edits>>

\* ghost: how fetch i ended
Settle(fs, i, how) ==
  [fs EXCEPT ![i].phase = "done", ![i].rows = <<>>, ![i].outcome = how]

\* The await of fetch i returns: stale check, then merge and prune; a
\* rejection that is not an AbortError goes to onError.
FetchResolve(i) ==
  LET f == fetches[i] IN
  /\ f.phase = "read"
  /\ IF f.failed
       THEN /\ errors' = errors + 1
            /\ cache' = cache
            /\ fetches' = Settle(fetches, i, "error")
       ELSE IF IsStale(f)
       THEN /\ errors' = errors
            /\ cache' = cache
            /\ fetches' = Settle(fetches, i, "discarded")
       ELSE /\ errors' = errors
            /\ cache' = MergeAndPrune(cache, f.rows, f.start, f.end)
            /\ fetches' = Settle(fetches, i, "merged")
  /\ UNCHANGED <<importVars, dbVars, columns, rowCount, viewport, requestId, controller,
                 editing, editValue, commits, cellEdits, resets, edits>>

\* ------------------------------------------------------------- editing
NewCommit(idx, col, row, val) ==
  [rowIdx |-> idx, col |-> col, id |-> row.id, originalData |-> row.data,
   newData |-> [row.data EXCEPT ![col] = val], value |-> val,
   phase |-> "updating"]

\* setCache updater of commitEdit, optimistic step and rollback alike: the
\* entry at rowIdx, if there is one, gets the data mapping `data`.
ReplaceData(prev, idx, data) ==
  IF idx \in DOMAIN prev THEN [prev EXCEPT ![idx].data = data] ELSE prev

RollbackKeepsCurrent(prev, c) ==
  IF c.rowIdx \in DOMAIN prev
    THEN ReplaceData(prev, c.rowIdx,
                     [col \in DOMAIN c.originalData |->
                        IF col = c.col THEN prev[c.rowIdx].data[col]
                        ELSE c.originalData[col]])
    ELSE prev
Rollback(prev, c) == ReplaceData(prev, c.rowIdx, c.originalData)

\* db.rows.update(id, {data}): the row with that id, if any, gets the data.
DbUpdate(rows, id, data) ==
  [i \in DOMAIN rows |-> IF rows[i].id = id
                         THEN [rows[i] EXCEPT !.data = data] ELSE rows[i]]

BeginEdit(idx, col) ==
  /\ edits < MaxEdits
  /\ idx \in DOMAIN cache
  /\ editing' = [rowIdx |-> idx, col |-> col]
  /\ editValue' = cache[idx].data[col]
  /\ edits' = edits + 1
  /\ UNCHANGED <<importVars, dbVars, columns, rowCount, viewport, cache, requestId,
                 fetches, controller, commits, errors, cellEdits, resets>>

\* onChange of the edit input.
SetEditValue(v) ==
  /\ editing # NoEdit
  /\ v # editValue
  /\ editValue' = v
  /\ UNCHANGED <<importVars, dbVars, columns, rowCount, viewport, cache, requestId,
                 fetches, controller, editing, commits, errors, cellEdits,
                 resets, edits>>

CancelEdit ==
  /\ editing # NoEdit
  /\ editing' = NoEdit
  /\ editValue' = 0
  /\ UNCHANGED <<importVars, dbVars, columns, rowCount, viewport, cache, requestId,
                 fetches, controller, commits, errors, cellEdits, resets,
                 edits>>

\* The edit input is rendered only in a row of virtualItems.
InputRendered ==
  /\ editing # NoEdit
  /\ viewport # <<>>
  /\ editing.rowIdx \in viewport[1]..viewport[2]

\* commitEdit up to its await (Enter or blur of the edit input).
CommitEdit ==
  /\ InputRendered
  /\ Len(commits) < MaxCommits
  /\ IF editing.rowIdx \notin DOMAIN cache
       THEN /\ editing' = NoEdit
            /\ UNCHANGED <<cache, commits>>
       ELSE /\ commits' = Append(commits,
                 NewCommit(editing.rowIdx, editing.col,
                           cache[editing.rowIdx], editValue))
            /\ cache' = ReplaceData(cache, editing.rowIdx,
                 [cache[editing.rowIdx].data EXCEPT ![editing.col] = editValue])
            /\ editing' = editing
  /\ UNCHANGED <<importVars, dbVars, columns, rowCount, viewport, requestId, fetches,
                 controller, editValue, errors, cellEdits, resets, edits>>

\* db.rows.update of commit j succeeds: onCellEdit, setEditing(null).
CommitOk(j) ==
  LET c == commits[j] IN
  /\ c.phase = "updating"
  /\ dbRows' = DbUpdate(dbRows, c.id, c.newData)
  /\ cellEdits' = Append(cellEdits, <<c.id, c.col, c.value>>)
  /\ editing' = NoEdit
  /\ commits' = [commits EXCEPT ![j].phase = "ok"]
  /\ UNCHANGED <<importVars, dbMeta, nextId, columns, rowCount, viewport, cache,
                 requestId, fetches, controller, editValue, errors, resets,
                 edits>>

\* db.rows.update of commit j fails: rollback, onError.
CommitFail(j) ==
  LET c == commits[j] IN
  /\ c.phase = "updating"
  /\ cache' = Rollback(cache, c)
  /\ errors' = errors + 1
  /\ commits' = [commits EXCEPT ![j].phase = "failed"]
  /\ UNCHANGED <<importVars, dbVars, columns, rowCount, viewport, requestId, fetches,
                 controller, editing, editValue, cellEdits, resets, edits>>

\* The rows a user can click: the first and the last visible one.
Clickable == IF viewport = <<>> THEN {} ELSE {viewport[1], viewport[2]}

\* ------------------------------------------------------------ importCsv
\* csvImporter.ts CONFIG
DEFAULT_CHUNK_SIZE_BYTES == 262144
NO_PROGRESS_ERROR == "NO_PROGRESS"

\* Row k of the file as step receives it: every header field holds k.
FileRow(k) == [c \in ColSet(Header) |-> k]
\* What the store held before the import: n rows of 0s, and their metadata.
OldMeta(n) == IF n = 0 THEN NoMeta ELSE [columns |-> <<"old">>, rowCount |-> n]

\* The closure of one attemptParse call: its local variables, its
\* ParserState, the Papa parser it drives, and its operations in flight.
NoAttempt ==
  [state |-> "none",          \* none, clearing (await db.rows.clear()), parsing
   useWorker |-> FALSE,
   columns |-> <<>>, buffer |-> <<>>, totalRows |-> 0,
   isMetaInitialized |-> FALSE,
   settled |-> "",            \* "", "resolved" or the error it rejected with
   \* ParserState
   parserSet |-> FALSE, isAborted |-> FALSE, hasStarted |-> FALSE,
   timer |-> FALSE,           \* progressTimer is pending
   listening |-> FALSE,       \* abortHandler is registered on the signal
   \* the Papa parser: rows handed to step, paused, aborted, ended
   pos |-> 0, paused |-> FALSE, pAborted |-> FALSE, pDone |-> FALSE,
   flush |-> "none",          \* flushBuffer: none, write (bulkAdd), yield
   flushBuf |-> <<>>,         \* the array flushBuffer handed to bulkAdd
   comps |-> <<>>,            \* the complete callbacks invoked so far
   \* ghost: batch writes started, metadata writes started
   writes |-> <<>>, metaPuts |-> 0]

\* attemptParse(file, useWorker, ...) is called: db.rows.clear() is awaited;
\* columns, buffer, totalRows and isMetaInitialized are fresh locals.
AttemptParseMainThread(useWorker) == [NoAttempt EXCEPT !.state = "clearing"]
AttemptParse(useWorker) ==
  [NoAttempt EXCEPT !.state = "clearing", !.useWorker = useWorker]

\* ProgressTracker: one onProgress call, as attempt a makes it.
ProgressCall(a, count, final) ==
  [attempt |-> a, count |-> count, final |-> final,
   settled |-> outcome # "pending"]
\* now - lastReportTime >= throttleMs: always so on the first report
\* (lastReportTime is 0), later as the clock has it; without a callback
\* report returns before it looks at the clock.
Throttle ==
  IF ~call.onProgress THEN {FALSE}
  ELSE IF \E i \in DOMAIN progress : ~progress[i].final THEN BOOLEAN
  ELSE {TRUE}
\* ProgressTracker.report, ProgressTracker.reportFinal
Report(a, count, due) ==
  IF due THEN Append(progress, ProgressCall(a, count, FALSE)) ELSE progress
ReportFinal(a, count) ==
  IF call.onProgress THEN Append(progress, ProgressCall(a, count, TRUE))
  ELSE progress

\* db.rows.bulkAdd(buf) is called.
BulkAddCall(r, buf) ==
  [r EXCEPT !.writes = Append(@, [rows |-> buf, afterAbort |-> r.isAborted,
                                  afterFail |-> r.settled \notin {"", "resolved"}])]

\* complete callback up to its first await: the remaining buffer is written,
\* or with an empty buffer db.meta.put is called at once.
CompleteCb(r) ==
  IF Len(r.buffer) > 0
    THEN [BulkAddCall(r, r.buffer) EXCEPT
            !.comps = Append(@, [phase |-> "flush", buf |-> r.buffer,
                                 meta |-> NoMeta])]
    ELSE [r EXCEPT
            !.comps = Append(@, [phase |-> "meta", buf |-> <<>>,
                                 meta |-> [columns |-> r.columns,
                                           rowCount |-> r.totalRows]]),
            !.metaPuts = @ + 1]

\* parser.abort() of Papa: no further step, and complete is called.
ParserAbort(r) == CompleteCb([r EXCEPT !.pAborted = TRUE])

\* ParserState.abort
PsAbort(r) == IF r.parserSet THEN ParserAbort(r) ELSE r
\* ParserState.cleanup
Cleanup(r) == [r EXCEPT !.timer = FALSE, !.listening = FALSE]
\* reject / resolve of the attempt's promise: the first call settles it.
Reject(r, e) == IF r.settled = "" THEN [r EXCEPT !.settled = e] ELSE r
Resolve(r) == IF r.settled = "" THEN [r EXCEPT !.settled = "resolved"] ELSE r

\* ParserState.handleAbort (registered with once: true)
HandleAbort(r) == PsAbort([r EXCEPT !.isAborted = TRUE, !.listening = FALSE])

\* ParserState.handleTimeout, then attemptParse's handleTimeout
HandleTimeout(r) ==
  IF ~r.hasStarted
    THEN Reject(Cleanup(PsAbort([r EXCEPT !.timer = FALSE])), NO_PROGRESS_ERROR)
    ELSE [r EXCEPT !.timer = FALSE]

\* flushBuffer up to its first await
FlushBuffer(r) ==
  IF Len(r.buffer) = 0 THEN r
  ELSE [BulkAddCall(r, r.buffer) EXCEPT !.flush = "write", !.flushBuf = r.buffer]

\* buffer.length >= options.batchSize
BatchFullStrict(r) == Len(r.buffer) > call.batchSize
BatchFull(r) == Len(r.buffer) >= call.batchSize

\* step callback for row k of the file
StepCb(r, k) ==
  LET r1 == [r EXCEPT !.parserSet = TRUE, !.pos = k] IN
  IF r1.isAborted THEN ParserAbort(r1)
  ELSE LET r2 == [r1 EXCEPT !.hasStarted = TRUE, !.timer = FALSE,
                            !.columns = IF r1.isMetaInitialized THEN @ ELSE Header,
                            !.isMetaInitialized = TRUE,
                            !.buffer = Append(@, k)]
       IN IF BatchFull(r2) THEN FlushBuffer([r2 EXCEPT !.paused = TRUE]) ELSE r2

\* importCsv after attempt a, now r, may have settled: fulfil, fall back to
\* the worker attempt, or rethrow.
Continue(a, r) ==
  IF att[a].settled # "" \/ r.settled = ""
    THEN att' = [att EXCEPT ![a] = r] /\ outcome' = outcome
  ELSE IF r.settled = "resolved"
    THEN att' = [att EXCEPT ![a] = r] /\ outcome' = "fulfilled"
  ELSE IF a = 1 /\ r.settled = NO_PROGRESS_ERROR /\ call.workers
    THEN /\ att' = [att EXCEPT ![1] = r, ![2] = AttemptParse(TRUE)]
         /\ outcome' = outcome
  ELSE att' = [att EXCEPT ![a] = r] /\ outcome' = r.settled

\* bulkAdd commits: the rows get the next ids.
BulkAdd(buf) ==
  /\ dbRows' = dbRows \o [i \in 1..Len(buf) |->
                            [id |-> nextId + i - 1, data |-> FileRow(buf[i])]]
  /\ nextId' = nextId + Len(buf)

ValidationErrorFileOnly ==
  IF call.file = "absent" THEN "File is required"
  ELSE IF call.file = "empty" THEN "File is empty"
  ELSE ""
ValidationError ==
  IF call.file = "absent" THEN "File is required"
  ELSE IF call.file = "empty" THEN "File is empty"
  ELSE IF call.batchSize <= 0 THEN "Batch size must be positive"
  ELSE IF call.chunkSizeBytes <= 0 THEN "Chunk size must be positive"
  ELSE ""

\* importCsv is called: validation, then the first attemptParse starts.
ImportCsv ==
  /\ outcome = "pending" /\ att[1].state = "none"
  /\ IF ValidationError # ""
       THEN outcome' = ValidationError /\ att' = att
       ELSE /\ att' = [att EXCEPT ![1] = AttemptParse(FALSE)]
            /\ outcome' = outcome
  /\ UNCHANGED <<dbVars, cacheVars, call, signal, progress>>

\* db.rows.clear()
DbClearKeepsRows(rows) == rows
DbClear(rows) == <<>>

\* await db.rows.clear() returns: new ParserState, Papa.parse starts.
ClearDone(a) ==
  /\ att[a].state = "clearing"
  /\ dbRows' = DbClear(dbRows)
  /\ att' = [att EXCEPT ![a].state = "parsing", ![a].timer = TRUE,
                        ![a].listening = TRUE]
  /\ UNCHANGED <<dbMeta, nextId, cacheVars, call, signal, outcome, progress>>

\* db.rows.clear() fails: attemptParse rejects with the store's error.
ClearFail(a) ==
  /\ att[a].state = "clearing"
  /\ Continue(a, [att[a] EXCEPT !.state = "failed", !.settled = "ClearError"])
  /\ UNCHANGED <<dbVars, cacheVars, call, signal, progress>>

\* The caller aborts the signal before the import has settled; the
\* registered abort handler, if any, runs.
AbortSignal ==
  /\ ~signal
  /\ outcome = "pending" /\ att[1].state # "none"
  /\ signal' = TRUE
  /\ IF \E a \in DOMAIN att : att[a].listening
       THEN LET a == CHOOSE a \in DOMAIN att : att[a].listening
            IN Continue(a, HandleAbort(att[a]))
       ELSE UNCHANGED <<att, outcome>>
  /\ UNCHANGED <<dbVars, cacheVars, call, progress>>

Parsing(a) ==
  /\ att[a].state = "parsing"
  /\ ~att[a].paused /\ ~att[a].pAborted /\ ~att[a].pDone

\* Papa hands the next row to step.
Step(a) ==
  /\ Parsing(a)
  /\ att[a].pos < call.rows
  /\ Continue(a, StepCb(att[a], att[a].pos + 1))
  /\ UNCHANGED <<dbVars, cacheVars, call, signal, progress>>

\* Papa reaches the end of the file and calls complete.
Complete(a) ==
  /\ Parsing(a)
  /\ att[a].pos = call.rows
  /\ Continue(a, CompleteCb([att[a] EXCEPT !.pDone = TRUE]))
  /\ UNCHANGED <<dbVars, cacheVars, call, signal, progress>>

\* Papa fails to read or parse and calls error.
ParseError(a) ==
  /\ Parsing(a)
  /\ Continue(a, Reject(Cleanup([att[a] EXCEPT !.pDone = TRUE]),
                        "CSV parsing failed"))
  /\ UNCHANGED <<dbVars, cacheVars, call, signal, progress>>

\* The progress timer fires.
Timeout(a) ==
  /\ att[a].timer
  /\ Continue(a, HandleTimeout(att[a]))
  /\ UNCHANGED <<dbVars, cacheVars, call, signal, progress>>

\* flushBuffer: bulkAdd resolves, the progress is reported.
FlushWriteOk(a) ==
  LET r == att[a]
      r1 == [r EXCEPT !.totalRows = @ + Len(r.buffer), !.buffer = <<>>]
  IN
  /\ r.flush = "write"
  /\ BulkAdd(r.flushBuf)
  /\ \E due \in Throttle : progress' = Report(a, r1.totalRows, due)
  /\ IF r1.isAborted
       THEN Continue(a, Reject(ParserAbort([r1 EXCEPT !.flush = "none"]),
                               "ImportAbortedError"))
       ELSE Continue(a, [r1 EXCEPT !.flush = "yield"])
  /\ UNCHANGED <<dbMeta, cacheVars, call, signal>>

\* flushBuffer: bulkAdd rejects.
FlushWriteFail(a) ==
  /\ att[a].flush = "write"
  /\ Continue(a, Reject(ParserAbort([att[a] EXCEPT !.flush = "none"]),
                        "Failed to write batch to database"))
  /\ UNCHANGED <<dbVars, cacheVars, call, signal, progress>>

\* flushBuffer: microYield resolves, parser.resume().
FlushYieldDone(a) ==
  /\ att[a].flush = "yield"
  /\ Continue(a, [att[a] EXCEPT !.flush = "none", !.paused = FALSE])
  /\ UNCHANGED <<dbVars, cacheVars, call, signal, progress>>

\* complete callback k: its bulkAdd resolves, db.meta.put is called.
CompleteFlushOk(a, k) ==
  LET r == att[a]
      total == r.totalRows + Len(r.buffer)
  IN
  /\ r.comps[k].phase = "flush"
  /\ BulkAdd(r.comps[k].buf)
  /\ Continue(a, [r EXCEPT !.totalRows = total,
                           !.comps[k].phase = "meta",
                           !.comps[k].meta = [columns |-> r.columns,
                                              rowCount |-> total],
                           !.metaPuts = @ + 1])
  /\ UNCHANGED <<dbMeta, cacheVars, call, signal, progress>>

\* complete callback k: a store operation rejects.
CompleteFail(a, k) ==
  /\ att[a].comps[k].phase \in {"flush", "meta"}
  /\ Continue(a, Reject(Cleanup([att[a] EXCEPT !.comps[k].phase = "done"]),
                        "Failed to complete import operation"))
  /\ UNCHANGED <<dbVars, cacheVars, call, signal, progress>>

\* complete callback k: db.meta.put resolves; reportFinal, resolve.
CompleteMetaOk(a, k) ==
  LET r == [att[a] EXCEPT !.comps[k].phase = "done"] IN
  /\ att[a].comps[k].phase = "meta"
  /\ dbMeta' = att[a].comps[k].meta
  /\ IF r.isAborted
       THEN /\ Continue(a, Cleanup(Reject(r, "ImportAbortedError")))
            /\ progress' = progress
       ELSE /\ Continue(a, Cleanup(Resolve(r)))
            /\ progress' = ReportFinal(a, r.totalRows)
  /\ UNCHANGED <<dbRows, nextId, cacheVars, call, signal>>

Attempts == {1, 2}

NextImport ==
  \/ ImportCsv
  \/ AbortSignal
  \/ \E a \in Attempts : ClearDone(a)
  \/ \E a \in Attempts : ClearFail(a)
  \/ \E a \in Attempts : Step(a)
  \/ \E a \in Attempts : Complete(a)
  \/ \E a \in Attempts : ParseError(a)
  \/ \E a \in Attempts : Timeout(a)
  \/ \E a \in Attempts : FlushWriteOk(a)
  \/ \E a \in Attempts : FlushWriteFail(a)
  \/ \E a \in Attempts : FlushYieldDone(a)
  \/ \E a \in Attempts : \E k \in DOMAIN att[a].comps : CompleteFlushOk(a, k)
  \/ \E a \in Attempts : \E k \in DOMAIN att[a].comps : CompleteFail(a, k)
  \/ \E a \in Attempts : \E k \in DOMAIN att[a].comps : CompleteMetaOk(a, k)

\* No import is running (the table's specifications).
IdleImport ==
  /\ call = [file |-> "ok", rows |-> 0, batchSize |-> 1,
             chunkSizeBytes |-> DEFAULT_CHUNK_SIZE_BYTES, workers |-> FALSE,
             old |-> 0, onProgress |-> FALSE]
  /\ signal = FALSE
  /\ att = [a \in Attempts |-> NoAttempt]
  /\ outcome = "pending"
  /\ progress = <<>>

\* No table is mounted (the importer's specification).
IdleCache ==
  /\ columns = <<>>
  /\ rowCount = 0
  /\ viewport = <<>>
  /\ cache = <<>>
  /\ requestId = 0
  /\ fetches = <<>>
  /\ controller = 0
  /\ editing = NoEdit
  /\ editValue = 0
  /\ commits = <<>>
  /\ errors = 0
  /\ cellEdits = <<>>
  /\ resets = 0
  /\ edits = 0

\* The importCsv calls: the file (absent, empty, or a header and `rows`
\* data rows), the options, whether workers are supported, and the `old`
\* rows the store holds, for olds in `olds` and onProgress supplied or not
\* as in `cbs`.
ImportCalls(olds, cbs) ==
  [file : {"ok", "absent", "empty"}, rows : 0..MaxFileRows,
   batchSize : 0..MaxBatch, chunkSizeBytes : {0, DEFAULT_CHUNK_SIZE_BYTES},
   workers : BOOLEAN, old : olds, onProgress : cbs]

\* importCsv is about to be called with one of `calls`.
InitImport(calls) ==
  /\ call \in calls
  /\ signal = FALSE
  /\ att = [a \in Attempts |-> NoAttempt]
  /\ outcome = "pending"
  /\ progress = <<>>
  /\ dbRows = Table(1, call.old)
  /\ nextId = call.old + 1
  /\ dbMeta = OldMeta(call.old)

\* importCsv is called without a progress callback while no table is
\* mounted.
InitImporter ==
  InitImport(ImportCalls(0..MaxOldRows, {FALSE})) /\ IdleCache

SpecImport == InitImporter /\ [][NextImport]_vars

\* importCsv is called on an empty store with a progress callback.
InitProgress == InitImport(ImportCalls({0}, {TRUE})) /\ IdleCache

SpecProgress == InitProgress /\ [][NextImport]_vars

\* The next import has as many rows as the current one, or SmallRows, or
\* one more.
ImportSizes == {rowCount, SmallRows, SmallRows + 1}

NextCache ==
  \/ \E vp \in Viewports(rowCount) : SetViewport(vp)
  \/ \E n \in ImportSizes : \E vp \in Viewports(n) : ChangeDataset(n, vp)
  \/ \E i \in DOMAIN fetches : FetchRead(i)
  \/ \E i \in DOMAIN fetches : FetchQueryFail(i)
  \/ \E i \in DOMAIN fetches : FetchResolve(i)

NextEdit ==
  \/ NextCache
  \/ \E idx \in Clickable : \E col \in ColSet(columns) : BeginEdit(idx, col)
  \/ \E v \in EditValues : SetEditValue(v)
  \/ CancelEdit
  \/ CommitEdit
  \/ \E j \in DOMAIN commits : CommitOk(j)
  \/ \E j \in DOMAIN commits : CommitFail(j)

\* The table over a large dataset: scrolling, fetching, dataset changes.
InitTable == InitDb(BigRows) /\ InitCache /\ IdleImport

SpecCache == InitTable /\ [][NextCache]_vars

\* The table over a small dataset: the same, and cell editing.
InitSmallTable == InitDb(SmallRows) /\ InitCache /\ IdleImport

SpecEdit == InitSmallTable /\ [][NextEdit]_vars

\* =============================================================== claims
Resolves(i) == fetches[i].phase = "read" /\ fetches'[i].phase = "done"
Merges(i) == Resolves(i) /\ fetches'[i].outcome = "merged"
Fails(j) == commits[j].phase = "updating" /\ commits'[j].phase = "failed"
Rejected == outcome \notin {"pending", "fulfilled"}

\* C1: a fetch response is merged only if, when it resolves, its token is
\* the current one and its controller is not aborted; the response of a
\* fetch superseded by a later miss-path fetch or by a reset leaves the
\* cache unchanged.
C1_LastRequestWins ==
  [][\A i \in DOMAIN fetches :
       /\ Merges(i) => (fetches[i].token = requestId /\ ~fetches[i].aborted
                        /\ ~fetches[i].superseded)
       /\ (Resolves(i) /\ fetches[i].superseded) => cache' = cache]_vars

C1_Witness ==
  \E i, j \in DOMAIN fetches :
    /\ i < j
    /\ fetches[i].superseded /\ fetches[i].outcome = "discarded"
    /\ fetches[j].outcome = "merged"
    /\ cache # <<>>

\* C2: after every merge+prune cycle the cache holds at most
\* MAX_CACHED_ROWS entries.
C2_CacheCapAfterMerge ==
  [][\A i \in DOMAIN fetches :
       Merges(i) => Cardinality(DOMAIN cache') <= MAX_CACHED_ROWS]_vars

\* C3 as stated: once a commit whose store update failed has finished, the
\* cache entry at the edited index holds exactly the pre-edit mapping.
C3_RollbackRestoresEntry ==
  [][\A j \in DOMAIN commits :
       Fails(j) => /\ commits[j].rowIdx \in DOMAIN cache'
                   /\ cache'[commits[j].rowIdx].data = commits[j].originalData]_vars

\* C3 amended: when the store update of a commit fails, an entry still
\* cached at the edited index holds exactly the pre-edit mapping afterwards
\* (its id and every other entry unchanged); if no entry is cached at that
\* index any more, the cache is left as it is.
C3_RollbackRestoresCachedEntry ==
  [][\A j \in DOMAIN commits :
       Fails(j) =>
         IF commits[j].rowIdx \in DOMAIN cache
           THEN cache' = [cache EXCEPT ![commits[j].rowIdx].data =
                                           commits[j].originalData]
           ELSE cache' = cache]_vars

C3_Witness ==
  \E j \in DOMAIN commits :
    /\ commits[j].phase = "failed"
    /\ commits[j].newData # commits[j].originalData
    /\ commits[j].rowIdx \in DOMAIN cache
    /\ cache[commits[j].rowIdx].data = commits[j].originalData

\* C4: whenever importCsv has failed, the metadata record is what it was
\* before the import started.
C4_FailedImportKeepsMeta == Rejected => dbMeta = OldMeta(call.old)

\* C5: an import whose signal was aborted before it settled, and that met
\* no store failure, no parse failure and no stall, settles with the
\* aborted-operation error.
OtherFailure ==
  \/ outcome \in {"ClearError", "Failed to write batch to database",
                  "Failed to complete import operation", "CSV parsing failed"}
  \/ att[1].settled = NO_PROGRESS_ERROR
C5_AbortSettlesAborted ==
  (signal /\ outcome # "pending" /\ ~OtherFailure)
    => outcome = "ImportAbortedError"

\* C6: no batch write is started by an attempt whose handleAbort has run.
C6_NoBatchAfterAbort ==
  \A a \in Attempts : \A w \in DOMAIN att[a].writes :
    ~att[a].writes[w].afterAbort

\* C7: a fulfilled import without abort or stall of a file of R rows with
\* batch size B started R div B batch writes of B rows, then one of R mod B
\* rows if R mod B > 0: ceil(R/B) writes, none larger than B.
ExpectedBatches(R, B) ==
  [i \in 1..((R + B - 1) \div B) |-> IF i * B <= R THEN B ELSE R % B]
BatchSizes(ws) == [i \in DOMAIN ws |-> Len(ws[i].rows)]
C7_BatchSizes ==
  (outcome = "fulfilled" /\ ~signal /\ att[2].state = "none")
    => /\ BatchSizes(att[1].writes) = ExpectedBatches(call.rows, call.batchSize)
       /\ Len(att[1].writes) * call.batchSize >= call.rows
       /\ \A w \in DOMAIN att[1].writes :
            Len(att[1].writes[w].rows) <= call.batchSize

C7_Witness ==
  /\ outcome = "fulfilled" /\ ~signal /\ att[2].state = "none"
  /\ call.rows = 3 /\ call.batchSize = 2
  /\ BatchSizes(att[1].writes) = <<2, 1>>

\* C8: whenever importCsv has fulfilled, metadata.rowCount is the number of
\* rows in the row collection and metadata.columns is the file's header.
C8_MetaMatchesStore ==
  outcome = "fulfilled"
    => dbMeta.rowCount = Len(dbRows) /\ dbMeta.columns = Header

\* C9: after a fulfilled import no row that was in the collection before
\* the import is left: every row was parsed from the new file; and an
\* attempt starts batch writes only after its clear.
FromNewFile(row) ==
  row.id > call.old /\ \E k \in 1..call.rows : row.data = FileRow(k)
C9_OldRowsNeverSurvive ==
  /\ outcome = "fulfilled" => \A i \in DOMAIN dbRows : FromNewFile(dbRows[i])
  /\ \A a \in Attempts : att[a].writes # <<>> => att[a].state = "parsing"

C9_Witness ==
  /\ call.old > 0
  /\ outcome = "fulfilled"
  /\ Len(dbRows) > 0

\* C10: once the fallback attempt has started, the primary attempt observes
\* no further row, starts no batch write and writes no metadata.
C10_PrimaryStoppedAfterFallback ==
  [][att[2].state # "none" =>
       /\ att'[1].pos = att[1].pos
       /\ att'[1].writes = att[1].writes
       /\ att'[1].metaPuts = att[1].metaPuts]_vars

\* C11: importCsv makes at most two attemptParse calls, the first on the
\* main thread and the second in worker mode, and neither is ever started
\* again; the fallback attempt starts with an empty buffer and a row count
\* of zero, the row collection is empty when its clear returns, and it
\* starts no batch write before that.
Starts(a) == att[a].state = "none" /\ att'[a].state # "none"
C11_FallbackOnceFullRestart ==
  [][/\ \A a \in Attempts :
          /\ att'[a].state = "clearing" => att[a].state \in {"none", "clearing"}
          /\ att'[a].state = "none" => att[a].state = "none"
          /\ Starts(a) => /\ att'[a].useWorker = (a = 2)
                          /\ att'[a].buffer = <<>> /\ att'[a].totalRows = 0
                          /\ att'[a].state = "clearing"
     /\ Starts(2) => att'[1].settled = NO_PROGRESS_ERROR
     /\ (att[2].state = "clearing" /\ att'[2].state = "parsing")
          => dbRows' = <<>>
     /\ att'[2].writes # <<>> => att'[2].state = "parsing"]_vars

C11_Witness ==
  /\ att[1].settled = NO_PROGRESS_ERROR
  /\ att[2].useWorker /\ att[2].writes # <<>>
  /\ call.old > 0
  /\ outcome = "fulfilled"

\* C12: importCsv never fails with the stall-timeout error.
C12_StallNeverSurfaces == outcome # NO_PROGRESS_ERROR

\* C13: the fallback attempt starts exactly when the primary attempt fails
\* with the stall timeout; an attempt fails so only while it has observed no
\* row, and its watchdog is not pending once it has; a primary attempt that
\* failed otherwise is the failure of importCsv, with no second attempt.
Stalls(a) ==
  att[a].settled # NO_PROGRESS_ERROR /\ att'[a].settled = NO_PROGRESS_ERROR
StallOnlyBeforeFirstRow ==
  \A a \in Attempts :
    /\ Stalls(a) => ~att[a].hasStarted /\ att[a].buffer = <<>>
    /\ att'[a].hasStarted => ~att'[a].timer
OtherFailuresPropagate ==
  (att'[1].settled \notin {"", "resolved", NO_PROGRESS_ERROR})
    => att'[2].state = "none" /\ outcome' = att'[1].settled
C13_FallbackIffStall ==
  [][/\ Starts(2) <=> Stalls(1)
     /\ StallOnlyBeforeFirstRow
     /\ OtherFailuresPropagate]_vars

\* C14: with an absent or empty file, or batchSize <= 0, or chunkSizeBytes
\* <= 0, the only thing importCsv does is fail with the validation error:
\* the row collection, the id counter and the metadata stay what they were
\* before the call and no attemptParse call (clear, parse, fallback) starts.
InvalidCall ==
  \/ call.file \in {"absent", "empty"}
  \/ call.batchSize <= 0
  \/ call.chunkSizeBytes <= 0
C14_ValidationBeforeStore ==
  [][InvalidCall =>
       /\ outcome' \in {"File is required", "File is empty",
                        "Batch size must be positive",
                        "Chunk size must be positive"}
       /\ att' = [a \in Attempts |-> NoAttempt]
       /\ dbRows' = Table(1, call.old) /\ nextId' = call.old + 1
       /\ dbMeta' = OldMeta(call.old)
       /\ progress' = <<>>]_vars

C14_Witness ==
  /\ call.file = "ok" /\ call.batchSize = 0
  /\ outcome = "Batch size must be positive"
  /\ call.old > 0 /\ Len(dbRows) = call.old

\* C19: once an import with a progress callback has fulfilled, the last
\* onProgress call is the final one of the attempt that fulfilled, was made
\* before the promise settled, and carried the number of rows in the row
\* collection, which is metadata.rowCount; and the counts one attempt
\* reported never decrease.
LastProgress == progress[Len(progress)]
CountsNonDecreasing ==
  \A i, j \in DOMAIN progress :
    (i < j /\ progress[i].attempt = progress[j].attempt)
      => progress[i].count <= progress[j].count
C19_FinalProgressIsTotal ==
  /\ CountsNonDecreasing
  /\ (outcome = "fulfilled" /\ call.onProgress)
       => /\ progress # <<>>
          /\ LastProgress.final /\ ~LastProgress.settled
          /\ LastProgress.count = Len(dbRows)
          /\ LastProgress.count = dbMeta.rowCount

\* C15: the cache holds no row data of a previous dataset: every entry has
\* the id of a row of the current row collection, and its data is that
\* row's data in the store or the data a commit-edit of that very row set
\* or restored (so no row fetched before a dataset change is in the cache
\* after it).
CurrentIds == {dbRows[i].id : i \in DOMAIN dbRows}
DataOfRow(id) ==
  {dbRows[i].data : i \in {x \in DOMAIN dbRows : dbRows[x].id = id}}
    \cup {commits[j].newData : j \in {x \in DOMAIN commits : commits[x].id = id}}
    \cup {commits[j].originalData :
            j \in {x \in DOMAIN commits : commits[x].id = id}}
C15_NoCrossDatasetData ==
  \A k \in DOMAIN cache :
    cache[k].id \in CurrentIds /\ cache[k].data \in DataOfRow(cache[k].id)

\* C16: when a commit-edit finishes, with the store update succeeded or
\* failed, no cell is in edit state.
Succeeds(j) == commits[j].phase = "updating" /\ commits'[j].phase = "ok"
C16_EditClearedAfterCommit ==
  [][\A j \in DOMAIN commits :
       (Succeeds(j) \/ Fails(j)) => editing' = NoEdit]_vars

\* C17: a merge+prune cycle removes no cached index of the needed range
\* [max(0, first - prefetch), min(rowCount - 1, last + prefetch)] of the
\* current viewport.
Needed ==
  IF viewport = <<>> THEN {}
  ELSE StartIndex(viewport)..EndIndex(viewport, rowCount)
C17_PruneKeepsNeededRows ==
  [][\A i \in DOMAIN fetches :
       Merges(i) => \A k \in Needed \cap DOMAIN cache : k \in DOMAIN cache']_vars

\* C18: every cache entry at logical index i is the row at offset i of the
\* row collection in id order.
C18_EntryIsRowAtOffset ==
  \A k \in DOMAIN cache :
    k + 1 \in DOMAIN dbRows /\ cache[k].id = dbRows[k + 1].id

C18_Witness ==
  \E i, j \in DOMAIN fetches :
    /\ fetches[i].superseded /\ fetches[i].outcome = "discarded"
    /\ fetches[j].outcome = "merged"
    /\ fetches[i].end < fetches[j].start
    /\ fetches[j].start \in DOMAIN cache /\ fetches[i].start \notin DOMAIN cache
    /\ resets = 0

\* C20: a superseded fetch (aborted controller or token no longer current)
\* that resolves, whether its query succeeded or failed, calls onError not
\* at all and leaves the cache unchanged; a fetch that is not superseded and
\* whose query failed calls onError and leaves the cache unchanged.
C20_SupersededFetchIsSilent ==
  [][\A i \in DOMAIN fetches :
       /\ (Resolves(i) /\ IsStale(fetches[i]))
            => errors' = errors /\ cache' = cache
       /\ (Resolves(i) /\ ~IsStale(fetches[i]) /\ fetches[i].failed)
            => errors' = errors + 1 /\ cache' = cache]_vars

\* C21: onCellEdit is called exactly when the store update of a commit-edit
\* succeeds, once, with (row id, column, new value), and at no other step;
\* a commit's store update is pending only after its optimistic cache
\* replacement; and when the update has succeeded the cache entry at the
\* edited index holds the pre-edit mapping with the edited column replaced.
NotifiedOnSuccessOnly ==
  /\ \A j \in DOMAIN commits :
       /\ Succeeds(j) =>
            cellEdits' = Append(cellEdits, <<commits[j].id, commits[j].col,
                                             commits[j].value>>)
       /\ Fails(j) => cellEdits' = cellEdits
  /\ cellEdits' # cellEdits => \E j \in DOMAIN commits : Succeeds(j)
OptimisticFirst ==
  Len(commits') > Len(commits) =>
    LET c == commits'[Len(commits')] IN
      /\ c.phase = "updating" /\ dbRows' = dbRows
      /\ cache'[c.rowIdx].data = c.newData
      /\ c.newData = [c.originalData EXCEPT ![c.col] = c.value]
C21_NotifyAfterPersist ==
  [][/\ NotifiedOnSuccessOnly
     /\ OptimisticFirst
     /\ \A j \in DOMAIN commits :
          Succeeds(j) => /\ commits[j].rowIdx \in DOMAIN cache'
                         /\ cache'[commits[j].rowIdx].data = commits[j].newData]_vars

\* C22: a viewport change whose needed range [max(0, first - prefetch),
\* min(rowCount - 1, last + prefetch)] is fully cached starts no fetch and
\* leaves the token, the controller and the cache as they are; one with a
\* missing index aborts the controller in flight, advances the token by one
\* and starts exactly one fetch, whose query returns the rows at offset
\* needed start, at most needed end - needed start + 1 of them.
NeededStart == Max(0, viewport'[1] - FETCH_PREFETCH)
NeededEnd == Min(rowCount - 1, viewport'[2] + FETCH_PREFETCH)
ViewportChanges ==
  viewport' # viewport /\ viewport' # <<>> /\ resets' = resets
C22_FastPathAndMissPath ==
  [][/\ ViewportChanges =>
          IF \A k \in NeededStart..NeededEnd : k \in DOMAIN cache
            THEN /\ fetches' = fetches /\ requestId' = requestId
                 /\ controller' = controller /\ cache' = cache
            ELSE /\ requestId' = requestId + 1 /\ cache' = cache
                 /\ Len(fetches') = Len(fetches) + 1
                 /\ controller' = Len(fetches')
                 /\ fetches'[controller'].token = requestId'
                 /\ fetches'[controller'].start = NeededStart
                 /\ fetches'[controller'].end = NeededEnd
                 /\ fetches'[controller'].phase = "query"
                 /\ ~fetches'[controller'].aborted
                 /\ controller # 0 => fetches'[controller].aborted
                 /\ \A i \in DOMAIN fetches :
                      fetches'[i].phase = fetches[i].phase
     /\ \A i \in DOMAIN fetches :
          (fetches[i].phase = "query" /\ fetches'[i].phase = "read"
             /\ ~fetches'[i].failed)
            => LET off == fetches[i].start
                   limit == fetches[i].end - fetches[i].start + 1
               IN fetches'[i].rows =
                    [j \in 1..Min(limit, Len(dbRows) - off) |-> dbRows[off + j]]]_vars

C22_Witness ==
  /\ Len(fetches) = 2 /\ resets = 0
  /\ fetches[1].aborted /\ fetches[1].token + 1 = fetches[2].token
  /\ fetches[2].token = requestId /\ fetches[2].phase = "read"
  /\ Needed # {} /\ Needed \subseteq DOMAIN cache
  /\ Needed # fetches[2].start..fetches[2].end

\* C23: right after the merge+prune cycle of a fetch with needed range
\* [s, e] every cached index k has max(0, s - 50) <= k <= e + 50, and every
\* index of [s, e] the store returned a row for is cached with that row.
C23_WindowAfterMerge ==
  [][\A i \in DOMAIN fetches :
       Merges(i) =>
         LET s == fetches[i].start
             e == fetches[i].end
             rows == fetches[i].rows
         IN /\ \A k \in DOMAIN cache' :
                 Max(0, s - CACHE_KEEP_BEFORE) <= k /\ k <= e + CACHE_KEEP_AFTER
            /\ \A j \in 1..Len(rows) :
                 /\ s + j - 1 \in s..e
                 /\ s + j - 1 \in DOMAIN cache'
                 /\ cache'[s + j - 1] = rows[j]]_vars

C23_Witness ==
  /\ Len(fetches) = 2
  /\ fetches[1].outcome = "merged" /\ fetches[2].outcome = "merged"
  /\ fetches[1].end < fetches[2].start - CACHE_KEEP_BEFORE
  /\ DOMAIN cache = fetches[2].start..fetches[2].end
  /\ resets = 0

\* C24: in every attempt the buffer never holds more than batchSize rows, at
\* most one batch write (of flushBuffer or of the complete callback) is in
\* flight, and while flushBuffer is between the start of its batch write
\* and its parser.resume() no row is added to the buffer.
WritesInFlight(r) ==
  (IF r.flush = "write" THEN 1 ELSE 0)
    + Cardinality({k \in DOMAIN r.comps : r.comps[k].phase = "flush"})
C24_Backpressure ==
  [][\A a \in Attempts :
       /\ Len(att'[a].buffer) <= call.batchSize
       /\ WritesInFlight(att'[a]) <= 1
       /\ att[a].flush \in {"write", "yield"}
            => Len(att'[a].buffer) <= Len(att[a].buffer)]_vars

\* C25: within one attempt no row of the file is handed to two batch writes
\* (flushBuffer's and the complete callback's), and totalRows counts no row
\* twice: it never exceeds the number of rows handed to step.
RowsOf(w) == {w.rows[i] : i \in DOMAIN w.rows}
C25_RowWrittenOnce ==
  \A a \in Attempts :
    /\ \A v, w \in DOMAIN att[a].writes :
         v # w => RowsOf(att[a].writes[v]) \cap RowsOf(att[a].writes[w]) = {}
    /\ att[a].totalRows <= att[a].pos

\* C26: when the batch write of flushBuffer fails, the attempt starts no
\* batch write and no metadata write at that point or after it, and it
\* fails with the wrapped batch-write error.
BatchWriteError == "Failed to write batch to database"
FlushFails(a) ==
  att[a].flush = "write" /\ att'[a].flush = "none" /\ dbRows' = dbRows
C26_NoWriteAfterBatchFailure ==
  [][\A a \in Attempts :
       /\ FlushFails(a) =>
            /\ att'[a].writes = att[a].writes
            /\ att'[a].metaPuts = att[a].metaPuts
            /\ att[a].settled = "" => att'[a].settled = BatchWriteError
       /\ att[a].settled = BatchWriteError =>
            /\ att'[a].writes = att[a].writes
            /\ att'[a].metaPuts = att[a].metaPuts
            /\ dbRows' = dbRows /\ dbMeta' = dbMeta]_vars

\* C27: when the store update of a commit fails and the cache entry at the
\* edited index is gone or belongs to a row with another id, the rollback
\* leaves the cache as it is.
C27_RollbackOnlyOwnRow ==
  [][\A j \in DOMAIN commits :
       (Fails(j) /\ (commits[j].rowIdx \notin DOMAIN cache
                     \/ cache[commits[j].rowIdx].id # commits[j].id))
         => cache' = cache]_vars

\* C28: when two commits of the same cell with the same value overlapped
\* and the store updates of both have failed, the cache entry of the row
\* holds the data the store holds for it.
StoredData(id) ==
  {dbRows[i].data : i \in {x \in DOMAIN dbRows : dbRows[x].id = id}}
C28_DoubleCommitRollback ==
  (/\ Len(commits) = 2
   /\ commits[1].phase = "failed" /\ commits[2].phase = "failed"
   /\ commits[1].id = commits[2].id /\ commits[1].col = commits[2].col
   /\ commits[1].value = commits[2].value
   /\ resets = 0)
    => /\ commits[1].rowIdx \in DOMAIN cache
       /\ cache[commits[1].rowIdx].data \in StoredData(commits[1].id)
====
